---- MODULE Spec2Model ----
(***************************************************************************)
(* Model of app.py, the Streamlit front-end of the Rockstar jobs database: *)
(* the session state behind the filter panel, the filter chains of the     *)
(* card list (tab1), the table view (tab3) and get_random_jobs (tab2), the *)
(* sort applied to the filtered rows, and the card list's pagination.      *)
(*                                                                         *)
(* Text is a sequence of character codes, so that lower-casing, substring  *)
(* search and lexicographic order are computed and not assumed.  A date    *)
(* text is <<y, m, d>> when it reads as "Month DD, YYYY" and <<>> when it  *)
(* does not parse.  A DataFrame is a sequence of rows; a row keeps the     *)
(* index it had in the loaded frame in its field idx.                      *)
(***************************************************************************)
EXTENDS Integers, Sequences, FiniteSets, TLC

VARIABLES
    df,                           \* load_data(): the loaded frame
    search_term,                  \* st.text_input("Search by Job Name or Creator")
    selected_job_types,           \* st.session_state.selected_job_types
    selected_verification_types,  \* st.session_state.selected_verification_types
    selected_year_range,          \* st.session_state.selected_year_range
    selected_player_filters,      \* st.session_state.selected_player_filters
    current_page,                 \* st.session_state.current_page
    sort_column,                  \* st.session_state.sort_column
    sort_direction,               \* st.session_state.sort_direction
    out                           \* what the last call or run produced

vars == <<df, search_term, selected_job_types, selected_verification_types,
          selected_year_range, selected_player_filters, current_page,
          sort_column, sort_direction, out>>

session == <<selected_job_types, selected_verification_types,
             selected_year_range, selected_player_filters, current_page,
             sort_column, sort_direction>>

(***************************************************************************)
(* Bounds of the model.                                                    *)
(***************************************************************************)
\* rows of the frames the filter functions are applied to
MaxFilterRows == 2
\* rows of the frames the sort is applied to
MaxSortRows == 3
\* rows beyond two full pages in the frames that are paginated
MaxExtraRows == 3
\* rows beyond one full page per job type in the session's frame
MaxSessionExtra == 1

(***************************************************************************)
(* Program constants.                                                      *)
(***************************************************************************)
page_size == 30

JOB_TYPE_ORDER ==
    << "GP and Street", "Off Road", "Race", "Stunt Race", "Banger Race",
       "Deathmatch", "Last Team Standing", "King of the Hill", "Other",
       "Parkour" >>

player_options == << "30 players", "16-29 players", "8-15 players" >>

sort_options ==
    << "job_name", "job_creator", "job_type_edited", "creation_date",
       "last_updated", "verification_type" >>

(***************************************************************************)
(* Text.                                                                   *)
(***************************************************************************)
\* the character codes of the texts that are compared as strings
Codes(s) ==
    CASE s = "Race"              -> <<82, 97, 99, 101>>
      [] s = "Banger Race"       -> <<66, 97, 110, 103, 101, 114, 32, 82, 97, 99, 101>>
      [] s = "Parkour"           -> <<80, 97, 114, 107, 111, 117, 114>>
      [] s = "Survival"          -> <<83, 117, 114, 118, 105, 118, 97, 108>>
      [] s = "Rockstar Created"  -> <<82, 111, 99, 107, 115, 116, 97, 114, 32,
                                      67, 114, 101, 97, 116, 101, 100>>
      [] s = "Rockstar Verified" -> <<82, 111, 99, 107, 115, 116, 97, 114, 32,
                                      86, 101, 114, 105, 102, 105, 101, 100>>

\* str.lower() on one character
LowerChar(c) == IF c >= 65 /\ c <= 90 THEN c + 32 ELSE c

\* str.lower()
Lower(s) == [i \in 1..Len(s) |-> LowerChar(s[i])]

\* Python's < on two strings: the first differing character decides, a proper
\* prefix is smaller
StrLess(a, b) ==
    \E k \in 1..(Len(b)) :
        /\ \A j \in 1..(k - 1) : j <= Len(a) /\ a[j] = b[j]
        /\ \/ k = Len(a) + 1
           \/ k <= Len(a) /\ a[k] < b[k]

\* Series.str.contains(pat, case=False) on one value: pat is searched as a
\* regular expression (regex=True is the default) ignoring case; of the
\* metacharacters the model has ".", which matches any character
StrContains(s, pat) ==
    \E off \in 0..(Len(s) - Len(pat)) :
        \A j \in 1..Len(pat) :
            pat[j] = 46 \/ LowerChar(pat[j]) = LowerChar(s[off + j])

\* the decimal text of a natural number: str(n)
RECURSIVE IntStr(_)
IntStr(n) == IF n < 10 THEN <<48 + n>> ELSE IntStr(n \div 10) \o <<48 + (n % 10)>>

\* int(s) raises ValueError unless s is a decimal text
IsIntText(s) == Len(s) > 0 /\ \A i \in 1..Len(s) : s[i] >= 48 /\ s[i] <= 57

\* the number the first k digits of a decimal text read as
RECURSIVE IntPrefix(_, _)
IntPrefix(s, k) ==
    IF k = 0 THEN 0 ELSE 10 * IntPrefix(s, k - 1) + (s[k] - 48)

\* int(s) of a decimal text
IntVal(s) == IntPrefix(s, Len(s))

\* "<NA>", the text pandas gives a missing Int64
NAText == <<60, 78, 65, 62>>

(***************************************************************************)
(* The loaded frame.                                                       *)
(***************************************************************************)
\* pd.to_datetime(text, errors='coerce'): the days since year 0 of a
\* 12 x 31 calendar, which orders dates as the timestamps do
ToDatetime(text) ==
    IF Len(text) = 3
    THEN [nat |-> FALSE, t |-> (text[1] * 12 + (text[2] - 1)) * 31 + text[3]]
    ELSE [nat |-> TRUE, t |-> 0]

\* df['creation_year']: the year of the parsed creation date as text, "<NA>"
\* when the date does not parse
CreationYear(text) ==
    IF ToDatetime(text).nat THEN NAText ELSE IntStr(text[1])

\* one row of the jobs table, with the derived creation_year column
Job(name, creator, descr, type, verification, players, created, updated) ==
    [ job_name          |-> name,
      job_creator       |-> creator,
      job_description   |-> descr,
      job_type_edited   |-> type,
      verification_type |-> verification,
      max_players       |-> players,
      creation_date     |-> created,
      last_updated      |-> updated,
      creation_year     |-> CreationYear(created) ]

\* job_description is NULL
NoText == [null |-> TRUE, text |-> <<>>]

\* job_description holds a text
Text(s) == [null |-> FALSE, text |-> s]

\* the rows the frames of the model are made of: names over the letters
\* A, a, B, b; a row whose max_players is "N/A"; a row whose creation date
\* does not parse; a job type that JOB_TYPE_ORDER does not list
RowPool ==
    << Job(<<65, 98>>, <<98>>, NoText, "Race", "Rockstar Created",
           <<51, 48>>, <<2015, 8, 8>>, <<2016, 1, 2>>),
       Job(<<98>>, <<66>>, Text(<<97>>), "Parkour", "Rockstar Verified",
           <<50, 48>>, <<2016, 3, 1>>, <<>>),
       Job(<<97, 66>>, <<98>>, Text(<<97, 98>>), "Banger Race", "Rockstar Created",
           <<56>>, <<2016, 3, 1>>, <<2016, 1, 2>>),
       Job(<<98>>, <<65>>, NoText, "Survival", "Rockstar Verified",
           <<78, 47, 65>>, <<2015, 8, 8>>, <<2015, 8, 8>>),
       Job(<<66>>, <<97>>, Text(<<98>>), "Race", "Rockstar Verified",
           <<49, 54>>, <<>>, <<2016, 1, 2>>) >>

\* a frame: the rows with their index
Frame(rows) ==
    [i \in 1..Len(rows) |-> ("idx" :> i) @@ rows[i]]

\* the frames of at most n rows of the pool
RECURSIVE PoolSeqs(_)
PoolSeqs(n) ==
    IF n = 0 THEN {<<>>}
    ELSE PoolSeqs(n - 1) \cup
         {Append(s, RowPool[k]) : s \in {q \in PoolSeqs(n - 1) : Len(q) = n - 1},
                                 k \in 1..Len(RowPool)}

\* the values of a Python list
Values(list) == {list[i] : i \in 1..Len(list)}

(***************************************************************************)
(* The filters.  A filter chain ends in [err, rows]: err when a statement  *)
(* of the chain raised, and then no rows are shown.                        *)
(***************************************************************************)
Raised == [err |-> TRUE, rows |-> <<>>]

Rows(frame) == [err |-> FALSE, rows |-> frame]

\* IsinJobType with a fault: only the first selected type is compared
IsinJobTypeFirst(frame, sel) ==
    SelectSeq(frame, LAMBDA r : r.job_type_edited = sel[1])

\* frame[frame['job_type_edited'].isin(sel)]
IsinJobType(frame, sel) ==
    SelectSeq(frame, LAMBDA r : r.job_type_edited \in Values(sel))

\* IsinVerification with a fault: the mask is computed on the loaded frame
\* and applied by position, so that it fits an unfiltered frame only
IsinVerificationByPosition(frame, sel) ==
    LET pos(r) == Cardinality({ i \in 1..Len(frame) : frame[i].idx <= r.idx })
    IN  SelectSeq(frame, LAMBDA r : df[pos(r)].verification_type \in Values(sel))

\* frame[frame['verification_type'].isin(sel)]
IsinVerification(frame, sel) ==
    SelectSeq(frame, LAMBDA r : r.verification_type \in Values(sel))

\* frame[frame['creation_year'].isin(years)]
IsinYear(frame, years) ==
    SelectSeq(frame, LAMBDA r : r.creation_year \in Values(years))

\* Series.astype(int) raises when a value of the column is no integer text
AstypeIntRaises(frame, col) ==
    \E i \in 1..Len(frame) : ~IsIntText(frame[i][col])

\* frame[frame[col].astype(int).between(lo, hi)]
BetweenInt(frame, col, lo, hi) ==
    IF AstypeIntRaises(frame, col) THEN Raised
    ELSE Rows(SelectSeq(frame, LAMBDA r : LET v == IntVal(r[col])
                                          IN  v >= lo /\ v <= hi))

\* the player count filter, the same if/elif chain in tab1, tab3 and
\* get_random_jobs: the first listed bucket that is selected decides
PlayerFilter(frame, sel) ==
    IF Len(sel) = 0 THEN Rows(frame)
    ELSE IF "30 players" \in Values(sel)
    THEN Rows(SelectSeq(frame, LAMBDA r : r.max_players = <<51, 48>>))
    ELSE IF "16-29 players" \in Values(sel)
    THEN BetweenInt(frame, "max_players", 16, 29)
    ELSE IF "8-15 players" \in Values(sel)
    THEN BetweenInt(frame, "max_players", 8, 15)
    ELSE Rows(frame)

\* SearchFilter with a fault: the creator is not searched
SearchFilterNameOnly(frame, term) ==
    IF Len(term) = 0 THEN frame
    ELSE SelectSeq(frame, LAMBDA r : StrContains(r.job_name, term))

\* the search filter of tab1 and tab3: job name or creator
SearchFilter(frame, term) ==
    IF Len(term) = 0 THEN frame
    ELSE SelectSeq(frame, LAMBDA r : \/ StrContains(r.job_name, term)
                                     \/ StrContains(r.job_creator, term))

\* the filter chain of tab1 and, line for line the same, of tab3
ApplyFilters(frame, job_types, verification_types, year_range, player_filters, term) ==
    LET f1 == IF Len(job_types) > 0 THEN IsinJobType(frame, job_types) ELSE frame
        f2 == IF Len(verification_types) > 0
              THEN IsinVerification(f1, verification_types) ELSE f1
        f3 == BetweenInt(f2, "creation_year", year_range[1], year_range[2])
        f4 == IF f3.err THEN Raised ELSE PlayerFilter(f3.rows, player_filters)
    IN  IF f4.err THEN Raised ELSE Rows(SearchFilter(f4.rows, term))

\* get_random_jobs up to the sample: the rows the sample is drawn from
RandomFiltered(frame, job_type_filters, verification_filters, year_filters, player_filters) ==
    LET f1 == IF Len(job_type_filters) > 0
              THEN IsinJobType(frame, job_type_filters) ELSE frame
        f2 == IF Len(verification_filters) > 0
              THEN IsinVerification(f1, verification_filters) ELSE f1
        f3 == IF Len(year_filters) > 0 THEN IsinYear(f2, year_filters) ELSE f2
    IN  PlayerFilter(f3, player_filters)

\* Samples with a fault: the rows are drawn with replacement
SamplesWithReplacement(frame, n) ==
    LET size == IF n < Len(frame) THEN n ELSE Len(frame)
    IN  [1..size -> 1..Len(frame)]

\* filtered_df.sample(n=sample_size): any sample_size rows, in any order
Samples(frame, n) ==
    LET size == IF n < Len(frame) THEN n ELSE Len(frame)
    IN  {s \in [1..size -> 1..Len(frame)] :
            \A i, j \in 1..size : i # j => s[i] # s[j]}

\* [str(year) for year in range(lo, hi + 1)], the years tab2 passes
RECURSIVE YearTexts(_, _)
YearTexts(lo, hi) ==
    IF lo > hi THEN <<>> ELSE <<IntStr(lo)>> \o YearTexts(lo + 1, hi)

(***************************************************************************)
(* The values the inputs are drawn from.                                   *)
(***************************************************************************)
\* the search texts: none, "a", "B", and "a." with the metacharacter
SearchTerms == { <<>>, <<97>>, <<66>>, <<97, 46>> }

\* selections of job types, as the toggle buttons leave them
JobTypeLists == { <<>>, <<"Race">>, <<"Parkour">>, <<"Race", "Parkour">> }

\* selections of verification types
VerificationLists == { <<>>, <<"Rockstar Created">> }

\* the years of the slider
Years == 2015..2016

\* the values of the year slider: lo <= hi
YearRanges == { <<lo, hi>> : lo \in Years, hi \in Years } \ { <<2016, 2015>> }

\* the selections the max players buttons leave: at most one bucket
PlayerSelections ==
    { <<>> } \cup { <<player_options[i]>> : i \in 1..Len(player_options) }

\* the lists a caller of get_random_jobs may pass as player_filters
PlayerLists ==
    PlayerSelections \cup
    { <<"30 players", "16-29 players">>, <<"30 players", "8-15 players">>,
      <<"16-29 players", "8-15 players">>,
      <<"30 players", "16-29 players", "8-15 players">> }

\* the lists a caller of get_random_jobs may pass as year_filters
YearLists == { <<>>, YearTexts(2015, 2015), YearTexts(2016, 2016), YearTexts(2015, 2016) }

\* values of the slider "Number of random jobs to show" (1 to 30)
NumJobs == { 1, 2, 30 }

\* the frames of the function-level specifications: df is not empty, the
\* script stops on an empty frame
FilterFrames == { Frame(rows) : rows \in PoolSeqs(MaxFilterRows) \ { <<>> } }

\* nothing has run yet
NoOutput == [op |-> "none"]

(***************************************************************************)
(* FilterSpec: the three filter chains, each run once on a frame and a     *)
(* filter state drawn from the values above.                               *)
(***************************************************************************)
FilterInit ==
    /\ df \in FilterFrames
    /\ search_term \in SearchTerms
    /\ selected_job_types \in JobTypeLists
    /\ selected_verification_types \in VerificationLists
    /\ selected_year_range \in YearRanges
    /\ selected_player_filters \in PlayerSelections
    /\ current_page = 1
    /\ sort_column = "creation_date"
    /\ sort_direction = "desc"
    /\ out = NoOutput

\* tab1, "Apply filters"
RunTab1 ==
    /\ out = NoOutput
    /\ out' = [op |-> "tab1",
               res |-> ApplyFilters(df, selected_job_types,
                                    selected_verification_types,
                                    selected_year_range,
                                    selected_player_filters, search_term)]
    /\ UNCHANGED <<df, search_term, session>>

\* tab3, "Apply the same filters as in the card view"
RunTab3 ==
    /\ out = NoOutput
    /\ out' = [op |-> "tab3",
               res |-> ApplyFilters(df, selected_job_types,
                                    selected_verification_types,
                                    selected_year_range,
                                    selected_player_filters, search_term)]
    /\ UNCHANGED <<df, search_term, session>>

\* what a call of get_random_jobs may return: it raises, or it returns a
\* sample of the filtered rows (the empty frame when none is left)
GetRandomJobs(frame, n, job_type_filters, verification_filters, year_filters, player_filters) ==
    LET f == RandomFiltered(frame, job_type_filters, verification_filters,
                            year_filters, player_filters)
    IN  IF f.err THEN { [err |-> TRUE, filtered |-> <<>>, sample |-> <<>>] }
        ELSE { [err |-> FALSE, filtered |-> f.rows,
                sample |-> [i \in 1..Len(s) |-> f.rows[s[i]]]] :
               s \in Samples(f.rows, n) }

\* tab2, the button "Get Random Jobs" with the session's filters
RunTab2 ==
    /\ out = NoOutput
    /\ \E n \in NumJobs :
         \E r \in GetRandomJobs(df, n, selected_job_types,
                                 selected_verification_types,
                                 YearTexts(selected_year_range[1],
                                           selected_year_range[2]),
                                 selected_player_filters) :
            out' = [op |-> "tab2", n |-> n, res |-> r]
    /\ UNCHANGED <<df, search_term, session>>

FilterNext == RunTab1 \/ RunTab3 \/ RunTab2

FilterSpec == FilterInit /\ [][FilterNext]_vars

(***************************************************************************)
(* RandomSpec: get_random_jobs called once with arguments drawn from the   *)
(* values above.                                                           *)
(***************************************************************************)
RandomInit ==
    /\ df \in FilterFrames
    /\ search_term = <<>>
    /\ selected_job_types = <<>>
    /\ selected_verification_types = <<>>
    /\ selected_year_range = <<2015, 2016>>
    /\ selected_player_filters = <<>>
    /\ current_page = 1
    /\ sort_column = "creation_date"
    /\ sort_direction = "desc"
    /\ out = NoOutput

CallGetRandomJobs ==
    /\ out = NoOutput
    /\ \E n \in NumJobs, jt \in JobTypeLists, vt \in VerificationLists,
          yf \in YearLists, pf \in PlayerLists :
         \E r \in GetRandomJobs(df, n, jt, vt, yf, pf) :
            out' = [op |-> "get_random_jobs", n |-> n, job_type_filters |-> jt,
                    verification_filters |-> vt, year_filters |-> yf,
                    player_filters |-> pf, res |-> r]
    /\ UNCHANGED <<df, search_term, session>>

RandomNext == CallGetRandomJobs

RandomSpec == RandomInit /\ [][RandomNext]_vars

(***************************************************************************)
(* Claims about the filters.                                               *)
(***************************************************************************)
\* the indices of the rows of a frame
IdxSet(frame) == { frame[i].idx : i \in 1..Len(frame) }

\* the bucket a button names, as the specification reads it
InBucket(players, bucket) ==
    /\ IsIntText(players)
    /\ \/ bucket = "30 players" /\ IntVal(players) = 30
       \/ bucket = "16-29 players" /\ IntVal(players) >= 16 /\ IntVal(players) <= 29
       \/ bucket = "8-15 players" /\ IntVal(players) >= 8 /\ IntVal(players) <= 15

\* a call of get_random_jobs whose only filter is player_filters
OnlyPlayerFilters ==
    /\ out.op = "get_random_jobs"
    /\ Len(out.player_filters) > 0
    /\ Len(out.job_type_filters) = 0
    /\ Len(out.verification_filters) = 0
    /\ Len(out.year_filters) = 0
    /\ ~out.res.err

\* C4: the max players filter is a disjunction: with a non-empty selection
\* of buckets, get_random_jobs draws from exactly the rows whose max players
\* number falls in at least one selected bucket.
C4_BucketsAreDisjunction ==
    OnlyPlayerFilters =>
        IdxSet(out.res.filtered) =
            { r.idx : r \in { x \in Values(df) :
                \E b \in Values(out.player_filters) : InBucket(x.max_players, b) } }

\* the rows a call of get_random_jobs draws from, by its arguments
CallFiltered ==
    RandomFiltered(df, out.job_type_filters, out.verification_filters,
                   out.year_filters, out.player_filters)

\* the smaller of two numbers
Min(a, b) == IF a < b THEN a ELSE b

\* C12: when the filters leave a subset, get_random_jobs returns without an
\* error exactly min(n, |subset|) rows, each a row of the subset and none
\* twice; from an empty subset it returns an empty result.
C12_SampleSizeAndMembers ==
    (out.op = "get_random_jobs" /\ ~CallFiltered.err) =>
        /\ ~out.res.err
        /\ Len(out.res.sample) = Min(out.n, Len(CallFiltered.rows))
        /\ IdxSet(out.res.sample) \subseteq IdxSet(CallFiltered.rows)
        /\ Cardinality(IdxSet(out.res.sample)) = Len(out.res.sample)
        /\ (CallFiltered.rows = <<>> => out.res.sample = <<>>)

\* thirty jobs were asked of a subset of two rows, and both were returned
C12_Witness ==
    /\ out.op = "get_random_jobs"
    /\ ~out.res.err
    /\ out.n = 30
    /\ Len(out.res.filtered) = 2
    /\ Len(out.res.sample) = 2
    /\ Len(out.job_type_filters) > 0

\* one job was asked of a subset of two rows
C12_WitnessFewer ==
    /\ out.op = "get_random_jobs"
    /\ ~out.res.err
    /\ out.n = 1
    /\ Len(out.res.filtered) = 2
    /\ Len(out.res.sample) = 1

\* the filters left no row, and the call returned the empty frame
C12_WitnessEmpty ==
    /\ out.op = "get_random_jobs"
    /\ ~out.res.err
    /\ Len(df) = 2
    /\ out.res.filtered = <<>>
    /\ out.res.sample = <<>>

\* a row passes the job type and the verification type dimension of the
\* session's selections: an empty selection lets every row pass
PassesCategories(r) ==
    /\ Len(selected_job_types) = 0
          \/ r.job_type_edited \in Values(selected_job_types)
    /\ Len(selected_verification_types) = 0
          \/ r.verification_type \in Values(selected_verification_types)

\* a row, taken alone, passes the other dimensions of the card list: the
\* year range, the max players bucket and the search
PassesOthersOfCardList(r) ==
    LET alone == ApplyFilters(<<r>>, <<>>, <<>>, selected_year_range,
                              selected_player_filters, search_term)
    IN  ~alone.err /\ alone.rows # <<>>

\* a row, taken alone, passes the other dimensions of get_random_jobs as
\* tab2 calls it: the years and the max players bucket
PassesOthersOfRandom(r) ==
    LET alone == RandomFiltered(<<r>>, <<>>, <<>>,
                                YearTexts(selected_year_range[1],
                                          selected_year_range[2]),
                                selected_player_filters)
    IN  ~alone.err /\ alone.rows # <<>>

\* C13: in the card list, the table and the random sampler, an empty
\* selection of job types or of verification types restricts nothing, a
\* non-empty one keeps exactly the rows whose type is selected, and the two
\* dimensions are joined to each other and to the other filters by AND.
C13_CategoriesAreMembershipAnd ==
    /\ (out.op \in {"tab1", "tab3"} /\ ~out.res.err) =>
          out.res.rows =
            SelectSeq(df, LAMBDA r : PassesCategories(r)
                                     /\ PassesOthersOfCardList(r))
    /\ (out.op = "tab2" /\ ~out.res.err) =>
          out.res.filtered =
            SelectSeq(df, LAMBDA r : PassesCategories(r)
                                     /\ PassesOthersOfRandom(r))

\* both selections are made; the second row is of a selected job type but
\* not of the selected verification type, and only the first row is kept
C13_Witness ==
    /\ out.op = "tab1"
    /\ ~out.res.err
    /\ Len(selected_job_types) = 2
    /\ Len(selected_verification_types) = 1
    /\ Len(df) = 2
    /\ df[2].job_type_edited \in Values(selected_job_types)
    /\ df[2].verification_type \notin Values(selected_verification_types)
    /\ PassesOthersOfCardList(df[2])
    /\ out.res.rows = <<df[1]>>

\* no selection is made in either dimension and a row with every other
\* filter open is shown
C13_WitnessEmpty ==
    /\ out.op = "tab1"
    /\ ~out.res.err
    /\ selected_job_types = <<>>
    /\ selected_verification_types = <<>>
    /\ selected_player_filters = <<>>
    /\ search_term = <<>>
    /\ Len(df) = 2
    /\ out.res.rows = df

\* the card-list filter chain, with the session's filter state, applied to
\* a frame
Chain(frame) ==
    ApplyFilters(frame, selected_job_types, selected_verification_types,
                 selected_year_range, selected_player_filters, search_term)

\* C14: filtering is idempotent: the card-list filter chain applied to the
\* subset it has returned returns, under the same filter state, the same
\* rows in the same order.
C14_FilterIdempotent ==
    (out.op \in {"tab1", "tab3"} /\ ~out.res.err) =>
        Chain(out.res.rows) = out.res

\* the chain, with a verification type, a bucket and a search text set, has
\* dropped the first of two rows and kept the second
C14_Witness ==
    /\ out.op = "tab1"
    /\ ~out.res.err
    /\ Len(selected_verification_types) = 1
    /\ Len(selected_player_filters) = 1
    /\ search_term # <<>>
    /\ Len(df) = 2
    /\ out.res.rows = <<df[2]>>
    /\ Chain(out.res.rows).rows = <<df[2]>>

\* the card list of the current filter state
CardList ==
    ApplyFilters(df, selected_job_types, selected_verification_types,
                 selected_year_range, selected_player_filters, search_term)

\* C5: every row the random sampler returns is a row the card list shows
\* for the same filter state, the search text included.
C5_SampleWithinCardList ==
    (out.op = "tab2" /\ ~out.res.err /\ ~CardList.err) =>
        IdxSet(out.res.sample) \subseteq IdxSet(CardList.rows)

\* the rows of df whose creation date does not parse
AbsentYear == { r \in Values(df) : ToDatetime(r.creation_date).nat }

\* the years observed in df
ObservedYears == { r.creation_date[1] : r \in Values(df) \ AbsentYear }

\* the selected year range is the full observed range
FullRange ==
    /\ ObservedYears # {}
    /\ \A y \in ObservedYears : selected_year_range[1] <= y
    /\ \E y \in ObservedYears : selected_year_range[1] = y
    /\ \A y \in ObservedYears : selected_year_range[2] >= y
    /\ \E y \in ObservedYears : selected_year_range[2] = y

\* no filter but the year range is set
OnlyYearRange ==
    /\ Len(selected_job_types) = 0
    /\ Len(selected_verification_types) = 0
    /\ Len(selected_player_filters) = 0
    /\ Len(search_term) = 0

\* C6: a row without a creation year is dropped by a year range narrower than
\* the observed one and kept by the full observed range, and the year filter
\* never ends in an error.
C6_AbsentYearHandled ==
    (out.op \in {"tab1", "tab3"} /\ OnlyYearRange /\ ObservedYears # {}) =>
        /\ ~out.res.err
        /\ \A r \in AbsentYear :
              r.idx \in IdxSet(out.res.rows) <=> FullRange

\* C6, for the rows get_random_jobs draws from: the same statement
C6_AbsentYearHandledRandom ==
    (out.op = "tab2" /\ OnlyYearRange /\ ObservedYears # {}) =>
        /\ ~out.res.err
        /\ \A r \in AbsentYear :
              r.idx \in IdxSet(out.res.filtered) <=> FullRange

\* the rows of df whose max players is a number
WellFormedPlayers == SelectSeq(df, LAMBDA r : IsIntText(r.max_players))

\* C7: with a bucket selected, a row whose max players is no number matches
\* no bucket, the other rows are filtered as if it were not there, and no
\* error is raised.
C7_MalformedPlayersNoMatch ==
    (/\ out.op \in {"tab1", "tab3"}
     /\ Len(selected_player_filters) > 0
     /\ AbsentYear = {}) =>
        /\ ~out.res.err
        /\ out.res.rows =
              ApplyFilters(WellFormedPlayers, selected_job_types,
                           selected_verification_types, selected_year_range,
                           selected_player_filters, search_term).rows

\* a is a substring of b
IsSubstring(a, b) ==
    \E off \in 0..(Len(b) - Len(a)) : SubSeq(b, off + 1, off + Len(a)) = a

\* the rows the search filter of the card list is applied to
BeforeSearch ==
    ApplyFilters(df, selected_job_types, selected_verification_types,
                 selected_year_range, selected_player_filters, <<>>)

PlainText(term) == \A i \in 1..Len(term) : term[i] # 46

TotalPagesFloor(count) == count \div page_size

\* total_pages = (len(filtered_df) // page_size) + 1
TotalPages(count) == (count \div page_size) + 1

\* filtered_df.iloc[start_idx:end_idx] with start_idx = (page - 1) * page_size:
\* a slice that runs past the end is cut at the end
PageSlice(rows, page) ==
    LET start_idx == (page - 1) * page_size
        end_idx == start_idx + page_size
    IN  SubSeq(rows, start_idx + 1, IF end_idx < Len(rows) THEN end_idx ELSE Len(rows))

\* the rows of the pool whose creation date parses, n of them in turn
CycledRows(n) == [i \in 1..n |-> RowPool[((i - 1) % 4) + 1]]

\* a frame in reverse order
Reversed(frame) == [i \in 1..Len(frame) |-> frame[Len(frame) + 1 - i]]

\* the frames that are paginated: up to two full pages and MaxExtraRows more
PageFrames == { Frame(CycledRows(n)) : n \in 1..(2 * page_size + MaxExtraRows) }

\* ordered subsets of a frame: all of it, all of it in reverse order, and the
\* rows of one job type
OrderedSubsets(frame) ==
    { frame, Reversed(frame), IsinJobType(frame, <<"Race">>) } \ { <<>> }

(***************************************************************************)
(* PageSpec: an ordered subset is paged through from the first page with   *)
(* the button Next, or a page is entered in the number input.              *)
(***************************************************************************)
PageInit ==
    /\ df \in PageFrames
    /\ search_term = <<>>
    /\ selected_job_types = <<>>
    /\ selected_verification_types = <<>>
    /\ selected_year_range = <<2015, 2016>>
    /\ selected_player_filters = <<>>
    /\ current_page = 1
    /\ sort_column = "creation_date"
    /\ sort_direction = "desc"
    /\ out \in { [op |-> "filtered", rows |-> r] : r \in OrderedSubsets(df) }

\* the first run: the number input shows st.session_state.current_page = 1
FirstPage ==
    /\ out.op = "filtered"
    /\ Len(out.rows) > 0
    /\ out' = [op |-> "page", rows |-> out.rows,
               total_pages |-> TotalPages(Len(out.rows)),
               page |-> current_page,
               page_df |-> PageSlice(out.rows, current_page),
               seen |-> PageSlice(out.rows, current_page)]
    /\ UNCHANGED <<df, search_term, session>>

\* the button Next, disabled on the last page
NextPage ==
    /\ out.op = "page"
    /\ ~(current_page >= out.total_pages)
    /\ current_page' = (IF out.total_pages < current_page + 1
                        THEN out.total_pages ELSE current_page + 1)
    /\ out' = [out EXCEPT !.page = current_page',
                          !.page_df = PageSlice(out.rows, current_page'),
                          !.seen = out.seen \o PageSlice(out.rows, current_page')]
    /\ UNCHANGED <<df, search_term, selected_job_types,
                   selected_verification_types, selected_year_range,
                   selected_player_filters, sort_column, sort_direction>>

PageNext == FirstPage \/ NextPage

PageSpec == PageInit /\ [][PageNext]_vars

\* max(1, ceil(count / page_size))
CeilPages(count) ==
    LET c == (count + page_size - 1) \div page_size
    IN  IF c < 1 THEN 1 ELSE c

\* C2: the number of pages the paginator reports is
\* max(1, ceil(count / page_size)).
C2_TotalPagesIsCeiling ==
    out.op = "page" => out.total_pages = CeilPages(Len(out.rows))

\* the pages 1..n of an ordered subset, one after the other
RECURSIVE PagesUpTo(_, _)
PagesUpTo(rows, n) ==
    IF n = 0 THEN <<>> ELSE PagesUpTo(rows, n - 1) \o PageSlice(rows, n)

\* C3: the pages 1..total_pages, one after the other, are the ordered subset:
\* every row once, none missing, in order.
C3_PagesCoverSubset ==
    out.op = "page" =>
        /\ PagesUpTo(out.rows, out.total_pages) = out.rows
        /\ out.page = out.total_pages => out.seen = out.rows

\* a subset of more than two pages has been paged through to its last page
C3_Witness ==
    /\ out.op = "page"
    /\ Len(out.rows) > 2 * page_size
    /\ out.page = out.total_pages
    /\ out.page = 3
    /\ Len(out.page_df) > 0
    /\ out.seen = out.rows

(***************************************************************************)
(* Sorting.  DataFrame.sort_values is called without kind, so numpy's      *)
(* quicksort orders the keys: rows with equal keys come out in an order    *)
(* the library does not fix.  The sort is therefore a set of results.      *)
(***************************************************************************)
\* the orders of n rows: the permutations of 1..n
Orders(n) ==
    { p \in [1..n -> 1..n] : \A i, j \in 1..n : i # j => p[i] # p[j] }

\* the key of a row is missing: a date that does not parse
KeyIsNa(r, column) ==
    column \in {"creation_date", "last_updated"} /\ ToDatetime(r[column]).nat

\* the key of row a is smaller than the key of row b
KeyLess(a, b, column) ==
    IF column \in {"job_name", "job_creator"}
    THEN \* key=lambda x: x.str.lower()
         StrLess(Lower(a[column]), Lower(b[column]))
    ELSE IF column \in {"creation_date", "last_updated"}
    THEN \* the column is replaced by pd.to_datetime(column, errors='coerce')
         ToDatetime(a[column]).t < ToDatetime(b[column]).t
    ELSE \* default sorting for other columns: the texts as they are
         StrLess(Codes(a[column]), Codes(b[column]))

\* InOrder with a fault: a descending sort is the ascending one reversed, so
\* that missing keys come first when descending
InOrderReversed(a, b, column, ascending) ==
    IF ascending
    THEN IF KeyIsNa(a, column) THEN KeyIsNa(b, column)
         ELSE KeyIsNa(b, column) \/ ~KeyLess(b, a, column)
    ELSE IF KeyIsNa(b, column) THEN KeyIsNa(a, column)
         ELSE KeyIsNa(a, column) \/ ~KeyLess(a, b, column)

\* row a may stand before row b in the result: missing keys are last in
\* either direction (na_position='last'), the others in key order
InOrder(a, b, column, ascending) ==
    IF KeyIsNa(a, column) THEN KeyIsNa(b, column)
    ELSE \/ KeyIsNa(b, column)
         \/ IF ascending THEN ~KeyLess(b, a, column) ELSE ~KeyLess(a, b, column)

\* filtered_df.sort_values(by=column, ascending=ascending): the results the
\* quicksort may give
SortValues(frame, column, ascending) ==
    { [i \in 1..Len(frame) |-> frame[p[i]]] :
        p \in { q \in Orders(Len(frame)) :
                  \A i, j \in 1..Len(frame) :
                      i < j => InOrder(frame[q[i]], frame[q[j]], column, ascending) } }

\* "Apply sorting": the sort column is always a column of the frame
ApplySorting(frame, column, direction) ==
    SortValues(frame, column, direction = "asc")

\* the frames that are sorted
SortFrames == { Frame(rows) : rows \in PoolSeqs(MaxSortRows) \ { <<>> } }

(***************************************************************************)
(* SortSpec: the sort of tab1 and tab3, run once on a frame.               *)
(***************************************************************************)
SortInit ==
    /\ df \in SortFrames
    /\ search_term = <<>>
    /\ selected_job_types = <<>>
    /\ selected_verification_types = <<>>
    /\ selected_year_range = <<2015, 2016>>
    /\ selected_player_filters = <<>>
    /\ current_page = 1
    /\ sort_column \in Values(sort_options)
    /\ sort_direction \in {"asc", "desc"}
    /\ out = NoOutput

RunSort ==
    /\ out = NoOutput
    /\ \E r \in ApplySorting(df, sort_column, sort_direction) :
          out' = [op |-> "sort", rows |-> r]
    /\ UNCHANGED <<df, search_term, session>>

SortNext == RunSort

SortSpec == SortInit /\ [][SortNext]_vars

\* two rows have equal sort keys
KeyEqual(a, b, column) ==
    IF KeyIsNa(a, column) \/ KeyIsNa(b, column)
    THEN KeyIsNa(a, column) /\ KeyIsNa(b, column)
    ELSE ~KeyLess(a, b, column) /\ ~KeyLess(b, a, column)

\* C9: the sort is stable: rows with equal sort keys keep the order they had
\* in the input, for every sort field and both directions.
C9_SortIsStable ==
    out.op = "sort" =>
        \A i, j \in 1..Len(out.rows) :
            (i < j /\ KeyEqual(out.rows[i], out.rows[j], sort_column)) =>
                out.rows[i].idx < out.rows[j].idx

\* the rank of a job type in JOB_TYPE_ORDER, unlisted types after all listed
TypeRank(type) ==
    IF \E k \in 1..Len(JOB_TYPE_ORDER) : JOB_TYPE_ORDER[k] = type
    THEN CHOOSE k \in 1..Len(JOB_TYPE_ORDER) : JOB_TYPE_ORDER[k] = type
    ELSE Len(JOB_TYPE_ORDER) + 1

\* C10: sorted by job type, the rows are in the order of their rank in
\* JOB_TYPE_ORDER (reversed when descending), and rows of the same rank are
\* in the order of their lower-cased names.
C10_SortByTypeRank ==
    (out.op = "sort" /\ sort_column = "job_type_edited") =>
        \A i, j \in 1..Len(out.rows) :
            i < j =>
                LET a == out.rows[i]
                    b == out.rows[j]
                IN  /\ IF sort_direction = "asc"
                       THEN TypeRank(a.job_type_edited) <= TypeRank(b.job_type_edited)
                       ELSE TypeRank(a.job_type_edited) >= TypeRank(b.job_type_edited)
                    /\ TypeRank(a.job_type_edited) = TypeRank(b.job_type_edited) =>
                          ~StrLess(Lower(b.job_name), Lower(a.job_name))

\* the date of a row in the sorted column did not parse
Unparsed(r, column) == ToDatetime(r[column]).nat

\* C11: sorted by creation date or by last-updated date, every row whose date
\* does not parse stands after all rows whose date parses, ascending and
\* descending alike.
C11_UnparsedDatesLast ==
    (out.op = "sort" /\ sort_column \in {"creation_date", "last_updated"}) =>
        \A i, j \in 1..Len(out.rows) :
            (Unparsed(out.rows[i], sort_column)
                /\ ~Unparsed(out.rows[j], sort_column)) => j < i

\* a descending date sort has moved a row without a date, which stood first
\* in the frame, behind two rows with dates
C11_Witness ==
    /\ out.op = "sort"
    /\ sort_column = "last_updated"
    /\ sort_direction = "desc"
    /\ Len(df) = 3
    /\ Unparsed(df[1], sort_column)
    /\ ~Unparsed(df[2], sort_column)
    /\ ~Unparsed(df[3], sort_column)
    /\ out.rows[3] = df[1]

(***************************************************************************)
(* The session: the script runs top to bottom after every event, with the  *)
(* session state the event's handler left.  out is what the run of tab1    *)
(* showed: the number of matching jobs, total_pages and the page that was  *)
(* sliced, or the statement that raised.                                   *)
(***************************************************************************)
\* the job types that get a button: those of JOB_TYPE_ORDER found in df
job_types ==
    SelectSeq(JOB_TYPE_ORDER, LAMBDA x : \E r \in Values(df) : r.job_type_edited = x)

\* the verification types that get a button
verification_types == { r.verification_type : r \in Values(df) }

\* int(min(df['creation_year'])): min() of the year texts
min_year ==
    IntVal(CHOOSE y \in { r.creation_year : r \in Values(df) } :
               \A r \in Values(df) : ~StrLess(r.creation_year, y))

\* int(max(df['creation_year'])): max() of the year texts
max_year ==
    IntVal(CHOOSE y \in { r.creation_year : r \in Values(df) } :
               \A r \in Values(df) : ~StrLess(y, r.creation_year))

\* list.remove(x): the first x of the list is taken out
Remove(list, x) ==
    LET k == CHOOSE i \in 1..Len(list) :
                 list[i] = x /\ \A j \in 1..(i - 1) : list[j] # x
    IN  SubSeq(list, 1, k - 1) \o SubSeq(list, k + 1, Len(list))

\* one run of tab1: the filters, then for a non-empty result total_pages and
\* st.number_input("Page", min_value=1, max_value=total_pages,
\* value=st.session_state.current_page), which raises when the value is above
\* max_value, and the slice of the page the input returns
Run(job_types_sel, verification_sel, year_range, player_sel, page, term) ==
    LET f == ApplyFilters(df, job_types_sel, verification_sel, year_range,
                          player_sel, term)
        total_pages == TotalPages(Len(f.rows))
    IN  IF f.err
        THEN [op |-> "run", status |-> "filter raised", count |-> 0,
              total_pages |-> 0, page |-> 0]
        ELSE IF Len(f.rows) = 0
        THEN [op |-> "run", status |-> "no jobs", count |-> 0,
              total_pages |-> 0, page |-> 0]
        ELSE IF page > total_pages
        THEN [op |-> "run", status |-> "page raised", count |-> Len(f.rows),
              total_pages |-> total_pages, page |-> 0]
        ELSE [op |-> "run", status |-> "shown", count |-> Len(f.rows),
              total_pages |-> total_pages, page |-> page]

\* st.rerun(): the run after an event, with the state the handler left
Rerun ==
    out' = Run(selected_job_types', selected_verification_types',
               selected_year_range', selected_player_filters', current_page',
               search_term')

\* the pool rows the session's frame is made of: every creation date parses,
\* or int(max(df['creation_year'])) stops the script before any widget
SessionPick == <<1, 2, 4>>

\* the session's frame: one row more than a page
SessionFrames ==
    { Frame([i \in 1..(page_size + MaxSessionExtra) |->
                RowPool[SessionPick[((i - 1) % 3) + 1]]]) }

\* the search texts typed in the session
SessionSearchTerms == { <<>>, <<97>> }

Init ==
    /\ df \in SessionFrames
    /\ search_term = <<>>
    /\ selected_job_types = <<>>
    /\ selected_verification_types = <<>>
    /\ selected_year_range = <<min_year, max_year>>
    /\ selected_player_filters = <<>>
    /\ current_page = 1
    /\ sort_column = "creation_date"
    /\ sort_direction = "desc"
    /\ out = Run(<<>>, <<>>, <<min_year, max_year>>, <<>>, 1, <<>>)

\* a job type button
ToggleJobType ==
    /\ \E job_type \in Values(job_types) :
          selected_job_types' =
              IF job_type \in Values(selected_job_types)
              THEN Remove(selected_job_types, job_type)
              ELSE Append(selected_job_types, job_type)
    /\ UNCHANGED <<df, search_term, selected_verification_types,
                   selected_year_range, selected_player_filters, current_page,
                   sort_column, sort_direction>>
    /\ Rerun

\* a verification type button
ToggleVerificationType ==
    /\ \E verification_type \in verification_types :
          selected_verification_types' =
              IF verification_type \in Values(selected_verification_types)
              THEN Remove(selected_verification_types, verification_type)
              ELSE Append(selected_verification_types, verification_type)
    /\ UNCHANGED <<df, search_term, selected_job_types, selected_year_range,
                   selected_player_filters, current_page, sort_column,
                   sort_direction>>
    /\ Rerun

\* the year slider is moved
MoveYearSlider ==
    /\ \E lo \in min_year..max_year, hi \in min_year..max_year :
          /\ lo <= hi
          /\ <<lo, hi>> # selected_year_range
          /\ selected_year_range' = <<lo, hi>>
    /\ UNCHANGED <<df, search_term, selected_job_types,
                   selected_verification_types, selected_player_filters,
                   current_page, sort_column, sort_direction>>
    /\ Rerun

\* TogglePlayerFilter with a fault: an unselected bucket is appended to the
\* selection, as the job type buttons do
TogglePlayerFilterAppend ==
    /\ \E player_option \in Values(player_options) :
          selected_player_filters' =
              IF player_option \in Values(selected_player_filters)
              THEN Remove(selected_player_filters, player_option)
              ELSE Append(selected_player_filters, player_option)
    /\ UNCHANGED <<df, search_term, selected_job_types,
                   selected_verification_types, selected_year_range,
                   current_page, sort_column, sort_direction>>
    /\ Rerun

\* a max players button
TogglePlayerFilter ==
    /\ \E player_option \in Values(player_options) :
          selected_player_filters' =
              IF player_option \in Values(selected_player_filters)
              THEN Remove(selected_player_filters, player_option)
              ELSE <<player_option>>
    /\ UNCHANGED <<df, search_term, selected_job_types,
                   selected_verification_types, selected_year_range,
                   current_page, sort_column, sort_direction>>
    /\ Rerun

\* "Clear All Filters"
ClearAllFilters ==
    /\ selected_job_types' = <<>>
    /\ selected_verification_types' = <<>>
    /\ selected_year_range' = <<min_year, max_year>>
    /\ selected_player_filters' = <<>>
    /\ current_page' = 1
    /\ UNCHANGED <<df, search_term, sort_column, sort_direction>>
    /\ Rerun

\* "Reset Page"
ResetPage ==
    /\ current_page' = 1
    /\ UNCHANGED <<df, search_term, selected_job_types,
                   selected_verification_types, selected_year_range,
                   selected_player_filters, sort_column, sort_direction>>
    /\ Rerun

\* the search text is edited
EditSearch ==
    /\ \E term \in SessionSearchTerms :
          term # search_term /\ search_term' = term
    /\ UNCHANGED <<df, session>>
    /\ Rerun

\* "Apply Sort", drawn when the filters left rows
ApplySort ==
    /\ out.status \in {"shown", "page raised"}
    /\ \E column \in Values(sort_options), direction \in {"asc", "desc"} :
          sort_column' = column /\ sort_direction' = direction
    /\ UNCHANGED <<df, search_term, selected_job_types,
                   selected_verification_types, selected_year_range,
                   selected_player_filters, current_page>>
    /\ Rerun

\* the button Previous, drawn before the number input, disabled on page 1
Previous ==
    /\ out.status \in {"shown", "page raised"}
    /\ ~(current_page <= 1)
    /\ current_page' = (IF current_page - 1 < 1 THEN 1 ELSE current_page - 1)
    /\ UNCHANGED <<df, search_term, selected_job_types,
                   selected_verification_types, selected_year_range,
                   selected_player_filters, sort_column, sort_direction>>
    /\ Rerun

\* a page is entered in the number input
EnterPage ==
    /\ out.status = "shown"
    /\ \E page \in 1..out.total_pages :
          page # current_page /\ current_page' = page
    /\ UNCHANGED <<df, search_term, selected_job_types,
                   selected_verification_types, selected_year_range,
                   selected_player_filters, sort_column, sort_direction>>
    /\ Rerun

\* the button Next, drawn after the number input, disabled on the last page
NextButton ==
    /\ out.status = "shown"
    /\ ~(current_page >= out.total_pages)
    /\ current_page' = (IF out.total_pages < current_page + 1
                        THEN out.total_pages ELSE current_page + 1)
    /\ UNCHANGED <<df, search_term, selected_job_types,
                   selected_verification_types, selected_year_range,
                   selected_player_filters, sort_column, sort_direction>>
    /\ Rerun

Next ==
    \/ ToggleJobType
    \/ ToggleVerificationType
    \/ MoveYearSlider
    \/ TogglePlayerFilter
    \/ ClearAllFilters
    \/ ResetPage
    \/ EditSearch
    \/ ApplySort
    \/ Previous
    \/ EnterPage
    \/ NextButton

Spec == Init /\ [][Next]_vars

\* C1: after any sequence of events, whenever the filters leave rows, the
\* current page lies in 1..total_pages for the number of matching rows, and
\* that page is the one sliced.
C1_PageWithinTotalPages ==
    out.status \in {"shown", "page raised"} =>
        /\ current_page \in 1..out.total_pages
        /\ out.page = current_page

\* C15: the selected max players filters hold at most one bucket at any
\* time; whenever the selection changes, it becomes either empty (the
\* selected bucket or Clear All Filters was clicked) or the one bucket that
\* was clicked and was not selected before.
C15_AtMostOnePlayerBucket ==
    /\ Len(selected_player_filters) <= 1
    /\ [][ /\ Len(selected_player_filters') <= 1
           /\ selected_player_filters' # selected_player_filters =>
                 \/ selected_player_filters' = <<>>
                 \/ \E b \in Values(player_options) :
                       /\ b \notin Values(selected_player_filters)
                       /\ selected_player_filters' = <<b>> ]_vars

\* a bucket other than the first is the selection, alone, after a click
C15_Witness ==
    /\ out.op = "run"
    /\ selected_player_filters = <<"8-15 players">>

====
